---- MODULE Spec2Model ----
(***************************************************************************)
(* State-machine model of the native backend of beautiFULLshot:           *)
(*   - overlay.rs    : snapshot slot + region-overlay window handshake     *)
(*   - screenshot.rs : capture_fullscreen, capture_region                  *)
(*   - clipboard.rs  : copy_image_to_clipboard                             *)
(*   - file_ops.rs   : save_file                                           *)
(***************************************************************************)
EXTENDS Integers, Sequences, FiniteSets, TLC

(***************************************************************************)
(* Bounds of the model.                                                    *)
(***************************************************************************)
\* concurrent invocations of capture_and_show_overlay
NumHandlers == 2
\* distinct desktop contents the screen can show
NumFrames == 2

Procs == 1..NumHandlers

VARIABLES
    slot,            \* OVERLAY_SCREENSHOT: <<>> is None, <<s>> is Some(s)
    winCount,        \* webview windows registered under label "region-overlay"
    winVisible,      \* the overlay window is shown on screen
    winFullscreen,   \* the overlay window is in fullscreen mode
    activatePending, \* an "overlay-activate" event waits for the overlay UI
    desktop,         \* what the live desktop currently shows
    pc,              \* position of each capture_and_show_overlay invocation
    val,             \* its local screenshot_base64 (<<>> before the capture
                     \* and once it has been moved into the slot)
    hideRet,         \* result of the last hide_overlay_window call
    readRet,         \* value returned by the last get_screenshot_data call
    staged,          \* history: the most recent begin's capture (see SeqSpec)
    call,            \* the stateless command being answered (NoCall: none)
    fsDirs,          \* file system: the directories that exist
    fsFiles          \* file system: the files that exist

\* the overlay's state
ovars == <<slot, winCount, winVisible, winFullscreen, activatePending, desktop,
           pc, val, hideRet>>
\* the state of the stateless commands
iovars == <<call, fsDirs, fsFiles>>

vars == <<slot, winCount, winVisible, winFullscreen, activatePending, desktop,
          pc, val, hideRet, readRet, staged, call, fsDirs, fsFiles>>

(***************************************************************************)
(* screenshot.rs: capture_fullscreen                                       *)
(***************************************************************************)
\* What the platform can answer to one capture_fullscreen call.
CaptureOutcomes == {"ok", "enum_error", "no_primary", "capture_error", "encode_error"}

\* The pixels of the primary monitor: the desktop, covered by the overlay
\* window when that window is visible.
ScreenImage(desk, overlayShown) == [desktop |-> desk, overlay |-> overlayShown]

\* image_to_png_bytes: a PNG container around the pixels.
ImageToPngBytes(img) == [png |-> img]

\* capture_fullscreen: Ok(bytes) or Err(message)
CaptureFullscreen(outcome, desk, overlayShown) ==
    CASE outcome = "enum_error"    -> [ok |-> FALSE, err |-> "enum_error"]
      [] outcome = "no_primary"    -> [ok |-> FALSE, err |-> "No primary monitor found"]
      [] outcome = "capture_error" -> [ok |-> FALSE, err |-> "capture_error"]
      [] outcome = "encode_error"  -> [ok |-> FALSE, err |-> "encode_error"]
      [] OTHER -> [ok |-> TRUE, bytes |-> ImageToPngBytes(ScreenImage(desk, overlayShown))]

(***************************************************************************)
(* overlay.rs                                                              *)
(***************************************************************************)
None == <<>>
Some(x) == <<x>>

Returned == {"idle", "ret_ok", "ret_err_capture", "ret_err_window"}

\* No capture_and_show_overlay invocation is in flight.
Quiescent == \A p \in Procs : pc[p] \in Returned

\* StoreSnapshot with the bug "keep a snapshot that is already staged"
StoreSnapshotKeepsOld(old, bytes) == IF old = <<>> THEN <<bytes>> ELSE old

\* *data = Some(screenshot_base64)   (overlay.rs:40)
StoreSnapshot(old, bytes) == Some(bytes)

\* no expectation about the slot
NoStaged == [bytes |-> None, ok |-> FALSE, overwrote |-> FALSE]

\* no stateless command is being answered
NoCall == [op |-> "none"]

Init ==
    /\ slot = None
    /\ winCount = 0
    /\ winVisible = FALSE
    /\ winFullscreen = FALSE
    /\ activatePending = FALSE
    /\ desktop = 1
    /\ pc = [p \in Procs |-> "idle"]
    /\ val = [p \in Procs |-> None]
    /\ hideRet = "none"
    /\ readRet = None
    /\ staged = NoStaged
    /\ call = NoCall
    /\ fsDirs = {}
    /\ fsFiles = {}

\* get_screenshot_data: a clone of the slot
GetScreenshotData ==
    /\ readRet' = slot
    /\ UNCHANGED ovars

\* clear_screenshot_data
ClearScreenshotData ==
    /\ slot' = None
    /\ UNCHANGED <<winCount, winVisible, winFullscreen, activatePending,
                   desktop, pc, val, hideRet>>

\* BeginCaptureFail with the bug "a failed capture drops the staged snapshot"
BeginCaptureFailClears(p) ==
    /\ pc[p] \in Returned
    /\ \E outcome \in CaptureOutcomes :
         /\ ~CaptureFullscreen(outcome, desktop, winVisible).ok
         /\ pc' = [pc EXCEPT ![p] = "ret_err_capture"]
    /\ slot' = None
    /\ UNCHANGED <<winCount, winVisible, winFullscreen, activatePending,
                   desktop, val, hideRet>>

\* capture_and_show_overlay, line 33, capture_fullscreen() returned Err: `?` returns it
BeginCaptureFail(p) ==
    /\ pc[p] \in Returned
    /\ \E outcome \in CaptureOutcomes :
         /\ ~CaptureFullscreen(outcome, desktop, winVisible).ok
         /\ pc' = [pc EXCEPT ![p] = "ret_err_capture"]
    /\ UNCHANGED <<slot, winCount, winVisible, winFullscreen, activatePending,
                   desktop, val, hideRet>>

\* capture_and_show_overlay, line 33, capture_fullscreen() returned Ok
BeginCaptureOk(p) ==
    /\ pc[p] \in Returned
    /\ \E outcome \in CaptureOutcomes :
         LET r == CaptureFullscreen(outcome, desktop, winVisible) IN
         /\ r.ok
         /\ pc' = [pc EXCEPT ![p] = "captured"]
         /\ val' = [val EXCEPT ![p] = Some(r.bytes)]
    /\ UNCHANGED <<slot, winCount, winVisible, winFullscreen, activatePending,
                   desktop, hideRet>>

\* capture_and_show_overlay, lines 36-41: the screenshot is moved into the
\* slot under the lock
BeginStore(p) ==
    /\ pc[p] = "captured"
    /\ slot' = StoreSnapshot(slot, val[p][1])
    /\ val' = [val EXCEPT ![p] = None]
    /\ pc' = [pc EXCEPT ![p] = "stored"]
    /\ UNCHANGED <<winCount, winVisible, winFullscreen, activatePending,
                   desktop, hideRet>>

\* capture_and_show_overlay, lines 44-48: get_webview_window; an existing
\* window is hidden, the result of hide() is dropped
BeginGetWindow(p) ==
    /\ pc[p] = "stored"
    /\ IF winCount > 0
         THEN /\ \E hideOk \in BOOLEAN :
                   winVisible' = IF hideOk THEN FALSE ELSE winVisible
              /\ pc' = [pc EXCEPT ![p] = "window"]
         ELSE /\ winVisible' = winVisible
              /\ pc' = [pc EXCEPT ![p] = "build"]
    /\ UNCHANGED <<slot, winCount, winFullscreen, activatePending,
                   desktop, val, hideRet>>

\* BeginBuild with the bug "every build registers a window of its own"
BeginBuildAnother(p) ==
    /\ pc[p] = "build"
    /\ \E platformOk \in BOOLEAN :
         IF platformOk
           THEN /\ winCount' = winCount + 1
                /\ winVisible' = FALSE
                /\ winFullscreen' = TRUE
                /\ pc' = [pc EXCEPT ![p] = "window"]
           ELSE /\ pc' = [pc EXCEPT ![p] = "rollback"]
                /\ UNCHANGED <<winCount, winVisible, winFullscreen>>
    /\ UNCHANGED <<slot, activatePending, desktop, val, hideRet>>

\* capture_and_show_overlay, lines 50-64: WebviewWindowBuilder::build.
\* The build fails when the platform refuses, or when the label
\* "region-overlay" is already registered.
BeginBuild(p) ==
    /\ pc[p] = "build"
    /\ \E platformOk \in BOOLEAN :
         IF platformOk /\ winCount = 0
           THEN /\ winCount' = winCount + 1
                /\ winVisible' = FALSE
                /\ winFullscreen' = TRUE
                /\ pc' = [pc EXCEPT ![p] = "window"]
           ELSE /\ pc' = [pc EXCEPT ![p] = "rollback"]
                /\ UNCHANGED <<winCount, winVisible, winFullscreen>>
    /\ UNCHANGED <<slot, activatePending, desktop, val, hideRet>>

\* BeginRollback with the bug "the error is returned without the rollback"
BeginRollbackKeeps(p) ==
    /\ pc[p] = "rollback"
    /\ pc' = [pc EXCEPT ![p] = "ret_err_window"]
    /\ UNCHANGED <<slot, winCount, winVisible, winFullscreen, activatePending,
                   desktop, val, hideRet>>

\* capture_and_show_overlay, lines 65-71: the map_err closure clears the slot,
\* then `?` returns the error
BeginRollback(p) ==
    /\ pc[p] = "rollback"
    /\ slot' = None
    /\ pc' = [pc EXCEPT ![p] = "ret_err_window"]
    /\ UNCHANGED <<winCount, winVisible, winFullscreen, activatePending,
                   desktop, val, hideRet>>

\* capture_and_show_overlay, lines 75-78: set_fullscreen and emit, both
\* results dropped, then Ok(())
BeginActivate(p) ==
    /\ pc[p] = "window"
    /\ \E fsOk \in BOOLEAN, emitOk \in BOOLEAN :
         /\ winFullscreen' = IF fsOk THEN TRUE ELSE winFullscreen
         /\ activatePending' = IF emitOk THEN TRUE ELSE activatePending
    /\ pc' = [pc EXCEPT ![p] = "ret_ok"]
    /\ UNCHANGED <<slot, winCount, winVisible, desktop, val, hideRet>>

\* HideOverlayWindow with the bug "Ok is returned without hiding the window"
HideOverlayWindowSkips ==
    /\ hideRet' = "ok"
    /\ UNCHANGED <<slot, winCount, winVisible, winFullscreen, activatePending,
                   desktop, pc, val>>

\* hide_overlay_window (close_overlay_window is an alias, lines 96-99)
HideOverlayWindow ==
    /\ \E hideOk \in BOOLEAN :
         IF winCount = 0
           THEN /\ hideRet' = "ok"
                /\ winVisible' = winVisible
           ELSE IF hideOk
                  THEN /\ hideRet' = "ok"
                       /\ winVisible' = FALSE
                  ELSE /\ hideRet' = "err"
                       /\ winVisible' = winVisible
    /\ UNCHANGED <<slot, winCount, winFullscreen, activatePending, desktop,
                   pc, val>>

\* The overlay UI consumes "overlay-activate" and shows its window.
OverlayActivate ==
    /\ activatePending
    /\ winCount > 0
    /\ winVisible' = TRUE
    /\ activatePending' = FALSE
    /\ UNCHANGED <<slot, winCount, winFullscreen, desktop, pc, val, hideRet>>

\* The live desktop redraws.
DesktopChange ==
    /\ desktop' = (desktop % NumFrames) + 1
    /\ UNCHANGED <<slot, winCount, winVisible, winFullscreen, activatePending,
                   pc, val, hideRet>>

BeginStep(p) ==
    \/ BeginCaptureFail(p)
    \/ BeginCaptureOk(p)
    \/ BeginStore(p)
    \/ BeginGetWindow(p)
    \/ BeginBuild(p)
    \/ BeginRollback(p)
    \/ BeginActivate(p)

(***************************************************************************)
(* Spec: the overlay commands as independent asynchronous tasks, in any    *)
(* interleaving.  get_screenshot_data only reads; it is part of SeqSpec.   *)
(***************************************************************************)
Next ==
    \/ \E p \in Procs : BeginStep(p) /\ UNCHANGED <<readRet, staged, iovars>>
    \/ HideOverlayWindow /\ UNCHANGED <<readRet, staged, iovars>>
    \/ ClearScreenshotData /\ UNCHANGED <<readRet, staged, iovars>>
    \/ OverlayActivate /\ UNCHANGED <<readRet, staged, iovars>>
    \/ DesktopChange /\ UNCHANGED <<readRet, staged, iovars>>

Spec == Init /\ [][Next]_vars

(***************************************************************************)
(* NoClearSpec: as Spec, with clear_screenshot_data never invoked.         *)
(***************************************************************************)
NoClearNext ==
    \/ \E p \in Procs : BeginStep(p) /\ UNCHANGED <<readRet, staged, iovars>>
    \/ HideOverlayWindow /\ UNCHANGED <<readRet, staged, iovars>>
    \/ OverlayActivate /\ UNCHANGED <<readRet, staged, iovars>>
    \/ DesktopChange /\ UNCHANGED <<readRet, staged, iovars>>

NoClearSpec == Init /\ [][NoClearNext]_vars

(***************************************************************************)
(* SeqSpec: the caller awaits each command before it invokes the next one. *)
(* The history variable staged records the encoding captured by the most   *)
(* recent begin, whether that begin has returned Ok, and whether it came   *)
(* after a successful begin that had captured other bytes; a clear or a    *)
(* failed overlay resets it.                                               *)
(***************************************************************************)
SeqBegin(p) ==
    /\ \A q \in Procs \ {p} : pc[q] \in Returned
    /\ \/ BeginCaptureFail(p) /\ UNCHANGED staged
       \/ /\ BeginCaptureOk(p)
          /\ staged' = [bytes |-> val'[p], ok |-> FALSE,
                        overwrote |-> staged.ok /\ staged.bytes # val'[p]]
       \/ BeginStore(p) /\ UNCHANGED staged
       \/ BeginGetWindow(p) /\ UNCHANGED staged
       \/ BeginBuild(p) /\ UNCHANGED staged
       \/ BeginRollback(p) /\ staged' = NoStaged
       \/ BeginActivate(p) /\ staged' = [staged EXCEPT !.ok = TRUE]

SeqNext ==
    \/ \E p \in Procs : SeqBegin(p) /\ UNCHANGED <<readRet, iovars>>
    \/ Quiescent /\ HideOverlayWindow /\ UNCHANGED <<readRet, staged, iovars>>
    \/ Quiescent /\ GetScreenshotData /\ UNCHANGED <<staged, iovars>>
    \/ Quiescent /\ ClearScreenshotData /\ staged' = NoStaged
                 /\ UNCHANGED <<readRet, iovars>>
    \/ OverlayActivate /\ UNCHANGED <<readRet, staged, iovars>>
    \/ DesktopChange /\ UNCHANGED <<readRet, staged, iovars>>

SeqSpec == Init /\ [][SeqNext]_vars

(***************************************************************************)
(* The stateless commands: one request, one response.                      *)
(***************************************************************************)
Max(a, b) == IF a >= b THEN a ELSE b
Min(a, b) == IF a <= b THEN a ELSE b

\* the invoking layer has received the response
Return ==
    /\ call # NoCall
    /\ call' = NoCall
    /\ UNCHANGED <<fsDirs, fsFiles>>

(***************************************************************************)
(* screenshot.rs: capture_region                                           *)
(***************************************************************************)
\* monitor images are 1..MaxDim pixels wide and high
MaxDim == 2
\* requested origins range over -MaxOff..MaxDim, extents over 0..MaxDim+1
MaxOff == 2

Dims == 1..MaxDim
Origins == (0 - MaxOff)..MaxDim
Extents == 0..(MaxDim + 1)

\* u32::saturating_sub
SaturatingSub(a, b) == IF a >= b THEN a - b ELSE 0

\* x.max(0) as u32                                (screenshot.rs:72-73)
ClampStart(x) == Max(x, 0)

\* CropExtent with the bug "the origin is not taken off the image extent"
CropExtentIgnoresStart(extent, imgExtent, start) == Min(extent, imgExtent)

\* width.min(img_width.saturating_sub(start_x))   (screenshot.rs:74-75)
CropExtent(extent, imgExtent, start) == Min(extent, SaturatingSub(imgExtent, start))

\* ZeroArea with the bug "&& for ||"
ZeroAreaBoth(cropWidth, cropHeight) == cropWidth = 0 /\ cropHeight = 0

\* crop_width == 0 || crop_height == 0            (screenshot.rs:77)
ZeroArea(cropWidth, cropHeight) == cropWidth = 0 \/ cropHeight = 0

\* capture_region on a primary monitor of w x h pixels: the result, and the
\* work done in the order it was done
CaptureRegionResult(outcome, x, y, width, height, w, h) ==
    LET startX == ClampStart(x)
        startY == ClampStart(y)
        cropWidth == CropExtent(width, w, startX)
        cropHeight == CropExtent(height, h, startY)
    IN  CASE outcome = "enum_error" ->
               [ret |-> "err_enum", effects |-> <<"enumerate">>]
          [] outcome = "no_primary" ->
               [ret |-> "err_no_primary", effects |-> <<"enumerate">>]
          [] outcome = "capture_error" ->
               [ret |-> "err_capture", effects |-> <<"enumerate", "capture">>]
          [] ZeroArea(cropWidth, cropHeight) ->
               [ret |-> "err_invalid_region", effects |-> <<"enumerate", "capture">>]
          [] outcome = "encode_error" ->
               [ret |-> "err_encode",
                effects |-> <<"enumerate", "capture", "crop", "encode">>]
          [] OTHER ->
               [ret |-> "ok",
                effects |-> <<"enumerate", "capture", "crop", "encode">>,
                left |-> startX, top |-> startY,
                width |-> cropWidth, height |-> cropHeight]

CaptureRegion ==
    /\ call = NoCall
    /\ \E x \in Origins, y \in Origins, width \in Extents, height \in Extents,
          w \in Dims, h \in Dims, outcome \in CaptureOutcomes :
         call' = [op |-> "capture_region",
                  req |-> [x |-> x, y |-> y, width |-> width, height |-> height],
                  monitor |-> [width |-> w, height |-> h],
                  res |-> CaptureRegionResult(outcome, x, y, width, height, w, h)]
    /\ UNCHANGED <<fsDirs, fsFiles>>

(***************************************************************************)
(* clipboard.rs: copy_image_to_clipboard                                   *)
(***************************************************************************)
MAX_IMAGE_SIZE == 50 * 1024 * 1024

\* payload sizes range over 0..SizeDelta and over the ceiling +- SizeDelta
SizeDelta == 2

PayloadSizes ==
    (0..SizeDelta) \cup {MAX_IMAGE_SIZE + d : d \in (0 - SizeDelta)..SizeDelta}

\* A base64 text is its length, its number of '=' and whether its
\* characters and padding are well formed.
\* STANDARD.encode of n bytes: 4 characters per 3 bytes, padded
Base64Encode(n) ==
    [len |-> 4 * ((n + 2) \div 3), pad |-> (3 - (n % 3)) % 3, wf |-> TRUE]

\* STANDARD.decode: the number of bytes, or an error
Base64Decode(text) ==
    IF text.wf /\ text.len % 4 = 0 /\ (text.len = 0 => text.pad = 0)
      THEN [ok |-> TRUE, len |-> (text.len \div 4) * 3 - text.pad]
      ELSE [ok |-> FALSE]

\* the texts handed to the command: encodings, and texts that do not decode
ClipboardInputs ==
    {Base64Encode(n) : n \in PayloadSizes}
      \cup {[len |-> Base64Encode(n).len + k, pad |-> 0, wf |-> FALSE] :
              n \in PayloadSizes, k \in 0..3}

\* base64_data.len() * 3 / 4                      (clipboard.rs:15)
EstimatedSize(text) == (text.len * 3) \div 4

CopyImageToClipboardResult(text, isImage, clipboardOk) ==
    LET decoded == Base64Decode(text) IN
    CASE EstimatedSize(text) > MAX_IMAGE_SIZE ->
           [ret |-> "err_too_large", effects |-> <<>>]
      [] ~decoded.ok ->
           [ret |-> "err_decode", effects |-> <<"decode">>]
      [] decoded.len > MAX_IMAGE_SIZE ->
           [ret |-> "err_decoded_too_large", effects |-> <<"decode">>]
      [] ~isImage ->
           [ret |-> "err_load_image", effects |-> <<"decode", "load_image">>]
      [] ~clipboardOk ->
           [ret |-> "err_clipboard",
            effects |-> <<"decode", "load_image", "clipboard">>]
      [] OTHER ->
           [ret |-> "ok", effects |-> <<"decode", "load_image", "clipboard">>]

CopyImageToClipboard ==
    /\ call = NoCall
    /\ \E text \in ClipboardInputs, isImage \in BOOLEAN, clipboardOk \in BOOLEAN :
         call' = [op |-> "copy_image_to_clipboard",
                  req |-> text,
                  res |-> CopyImageToClipboardResult(text, isImage, clipboardOk)]
    /\ UNCHANGED <<fsDirs, fsFiles>>

(***************************************************************************)
(* file_ops.rs: save_file                                                  *)
(***************************************************************************)
MAX_FILE_SIZE == 50 * 1024 * 1024

\* paths have up to MaxPathLen components below the root
MaxPathLen == 2

\* a plain name, a name whose text contains "..", and the parent segment
Names == {"d", "e..e"}
Components == Names \cup {".."}
Paths == UNION {[1..n -> Components] : n \in 0..MaxPathLen}

FileSizes ==
    (0..SizeDelta) \cup {MAX_FILE_SIZE + d : d \in (0 - SizeDelta)..SizeDelta}

FsOutcomes == {"ok", "mkdir_error", "canonicalize_error", "write_error"}

Front(path) == SubSeq(path, 1, Len(path) - 1)

\* Path::parent: None for the root
Parent(path) == IF path = <<>> THEN None ELSE Some(Front(path))

\* Path::file_name: None when the path ends in ".."
FileName(path) ==
    IF path = <<>> \/ path[Len(path)] = ".." THEN None ELSE Some(path[Len(path)])

\* Path::canonicalize of an existing directory: ".." segments resolved
RECURSIVE Canonicalize(_)
Canonicalize(path) ==
    IF path = <<>> THEN <<>>
    ELSE LET up == Canonicalize(Front(path))
             last == path[Len(path)]
         IN  IF last = ".."
               THEN (IF up = <<>> THEN <<>> ELSE Front(up))
               ELSE Append(up, last)

\* path_str.contains(".."): some component's text contains ".."
ContainsDotDot(path) == \E i \in 1..Len(path) : path[i] \in {"..", "e..e"}

\* the directories create_dir_all(dir) makes sure exist
AncestorsOf(dir) == {Canonicalize(SubSeq(dir, 1, k)) : k \in 1..Len(dir)} \ {<<>>}

\* data.len() > MAX_FILE_SIZE                      (file_ops.rs:13)
ExceedsFileLimit(size) == size > MAX_FILE_SIZE

\* save_file: the result, the file system after it, and the work done in
\* the order it was done
SaveFileResult(path, size, outcome, dirs, files) ==
    LET parent == Parent(path)
        made == dirs \cup AncestorsOf(parent[1])
        canonicalParent == Canonicalize(parent[1])
        fileName == FileName(path)
        canonicalPath == Append(canonicalParent, fileName[1])
    IN  CASE ExceedsFileLimit(size) ->
               [ret |-> "err_too_large", effects |-> <<>>,
                dirs |-> dirs, files |-> files]
          [] parent = None ->
               [ret |-> "err_no_parent", effects |-> <<>>,
                dirs |-> dirs, files |-> files]
          [] outcome = "mkdir_error" \/ AncestorsOf(parent[1]) \cap files # {} ->
               [ret |-> "err_create_dir", effects |-> <<"create_dir_all">>,
                dirs |-> dirs, files |-> files]
          [] outcome = "canonicalize_error" ->
               [ret |-> "err_invalid_path",
                effects |-> <<"create_dir_all", "canonicalize">>,
                dirs |-> made, files |-> files]
          [] fileName = None ->
               [ret |-> "err_invalid_filename",
                effects |-> <<"create_dir_all", "canonicalize">>,
                dirs |-> made, files |-> files]
          [] ContainsDotDot(canonicalPath) ->
               [ret |-> "err_traversal",
                effects |-> <<"create_dir_all", "canonicalize">>,
                dirs |-> made, files |-> files]
          [] outcome = "write_error" \/ canonicalPath \in made ->
               [ret |-> "err_write",
                effects |-> <<"create_dir_all", "canonicalize", "write">>,
                dirs |-> made, files |-> files]
          [] OTHER ->
               [ret |-> "ok",
                effects |-> <<"create_dir_all", "canonicalize", "write">>,
                dirs |-> made, files |-> files \cup {canonicalPath},
                path |-> canonicalPath]

SaveFile ==
    /\ call = NoCall
    /\ \E path \in Paths, size \in FileSizes, outcome \in FsOutcomes :
         LET r == SaveFileResult(path, size, outcome, fsDirs, fsFiles) IN
         /\ call' = [op |-> "save_file",
                     req |-> [path |-> path, size |-> size],
                     before |-> [dirs |-> fsDirs, files |-> fsFiles],
                     res |-> [ret |-> r.ret, effects |-> r.effects]]
         /\ fsDirs' = r.dirs
         /\ fsFiles' = r.files

(***************************************************************************)
(* RegionSpec: capture_region requests.                                    *)
(***************************************************************************)
RegionNext ==
    \/ CaptureRegion /\ UNCHANGED <<ovars, readRet, staged>>
    \/ Return /\ UNCHANGED <<ovars, readRet, staged>>

RegionSpec == Init /\ [][RegionNext]_vars

(***************************************************************************)
(* IoSpec: the stateless commands, one at a time.                          *)
(***************************************************************************)
IoNext ==
    \/ CaptureRegion /\ UNCHANGED <<ovars, readRet, staged>>
    \/ CopyImageToClipboard /\ UNCHANGED <<ovars, readRet, staged>>
    \/ SaveFile /\ UNCHANGED <<ovars, readRet, staged>>
    \/ Return /\ UNCHANGED <<ovars, readRet, staged>>

IoSpec == Init /\ [][IoNext]_vars

(***************************************************************************)
(* Properties of the overlay handshake.                                    *)
(***************************************************************************)

\* C1 (SeqSpec): once a begin has returned Ok, and until a clear or a later
\* begin intervenes, the slot holds the encoding that begin captured and
\* get_screenshot_data returns it (non-absent), whatever was staged before.
C1_ReadReturnsLatestCapture ==
    [][ /\ (Quiescent' /\ staged'.ok) =>
              (slot' = staged'.bytes /\ slot' # None)
        /\ (GetScreenshotData /\ staged.ok) =>
              (readRet' = staged.bytes /\ readRet' # None) ]_vars

\* C1 witness: a second begin has returned Ok after capturing other bytes than
\* the begin before it, and the read returned the second capture.
C1_Witness ==
    /\ staged.ok
    /\ staged.overwrote
    /\ readRet = staged.bytes
    /\ slot = staged.bytes

\* C2 (Spec): the step on which a begin returns the window-creation error
\* leaves the slot absent.
C2_RollbackBeforeError ==
    [][ \A p \in Procs :
          (pc[p] # "ret_err_window" /\ pc'[p] = "ret_err_window") => slot' = None ]_vars

\* C2 witness: a begin has returned the window-creation error, no window
\* exists and the slot is absent.
C2_Witness ==
    \E p \in Procs : pc[p] = "ret_err_window" /\ winCount = 0 /\ slot = None

\* C3 as claimed (Spec): no captured image shows the overlay, in an
\* invocation's local or in the slot.
C3_CaptureNeverShowsOverlay ==
    /\ \A p \in Procs : val[p] # None => ~val[p][1].png.overlay
    /\ slot # None => ~slot[1].png.overlay

\* C4 as claimed (Spec): every hide_overlay_window call returns Ok and leaves
\* the overlay not visible.
C4_HideNeverErrors ==
    [][ HideOverlayWindow => (hideRet' = "ok" /\ ~winVisible') ]_vars

\* C4 amended (Spec): a call returns Ok when no overlay window exists, every
\* call that returns Ok leaves the overlay not visible, and a call returns an
\* error only when a window exists, leaving its visibility as it was.
C4_HideOkOrPlatformError ==
    [][ HideOverlayWindow =>
          /\ hideRet' \in {"ok", "err"}
          /\ winCount = 0 => hideRet' = "ok"
          /\ hideRet' = "ok" => ~winVisible'
          /\ hideRet' = "err" => (winCount > 0 /\ winVisible' = winVisible) ]_vars

\* C4 witness: a hide has returned Ok on an existing window, which is hidden,
\* after a begin had returned Ok.
C4_Witness ==
    /\ hideRet = "ok"
    /\ winCount > 0
    /\ ~winVisible
    /\ \E p \in Procs : pc[p] = "ret_ok"

\* C5 (Spec): at most one "region-overlay" window exists, it is never
\* destroyed, and a begin that looks the window up once it exists goes on
\* with that window instead of building one.
C5_SingleWindowReused ==
    [][ /\ winCount <= 1
        /\ winCount' <= 1
        /\ winCount' >= winCount
        /\ \A p \in Procs :
             (pc[p] = "stored" /\ winCount > 0 /\ pc'[p] # "stored")
                => (pc'[p] = "window" /\ winCount' = winCount) ]_vars

\* C5 witness: every begin invocation has returned Ok and one window exists.
C5_Witness ==
    /\ winCount = 1
    /\ \A p \in Procs : pc[p] = "ret_ok"

\* C9 (Spec): the step on which a begin returns a capture error changes
\* neither the slot nor the window, and emits nothing.
C9_CaptureFailureChangesNothing ==
    [][ \A p \in Procs :
          (pc[p] # "ret_err_capture" /\ pc'[p] = "ret_err_capture")
             => UNCHANGED <<slot, winCount, winVisible, winFullscreen,
                            activatePending>> ]_vars

\* C9 witness: a begin has returned a capture error while a snapshot is
\* staged and the overlay is shown.
C9_Witness ==
    \E p \in Procs :
       pc[p] = "ret_err_capture" /\ slot # None /\ winCount = 1 /\ winVisible

\* C10 as claimed (NoClearSpec): whenever a begin has returned Ok and the
\* activation is out, the slot is not absent.
C10_ActivatedImpliesSnapshot ==
    \A p \in Procs : (pc[p] = "ret_ok" /\ activatePending) => slot # None

(***************************************************************************)
(* Properties of the stateless commands.                                   *)
(***************************************************************************)

\* the pixels of [start, start + extent) that lie in [0, bound)
IntersectLen(start, extent, bound) ==
    Cardinality({i \in start..(start + extent - 1) : 0 <= i /\ i < bound})

\* capture_region answered after a successful capture of the monitor
RegionAnswered ==
    /\ call.op = "capture_region"
    /\ call.res.ret \in {"ok", "err_invalid_region"}

\* C6 as claimed (RegionSpec): the crop has the width and height of the
\* intersection of the requested rectangle with the monitor bounds, and the
\* call is an error when that intersection is empty.
C6_CropIsIntersection ==
    RegionAnswered =>
      LET w == IntersectLen(call.req.x, call.req.width, call.monitor.width)
          h == IntersectLen(call.req.y, call.req.height, call.monitor.height)
      IN  IF w > 0 /\ h > 0
            THEN /\ call.res.ret = "ok"
                 /\ call.res.width = w
                 /\ call.res.height = h
            ELSE call.res.ret = "err_invalid_region"

\* C6 amended (RegionSpec): the crop has the width and height of the
\* intersection of the monitor bounds with the requested extent placed at the
\* clamped origin (max(x,0), max(y,0)), which is the intersection of the
\* requested rectangle when x >= 0 and y >= 0; the call is an error exactly
\* when that area is empty, and a crop is never empty.
C6_CropIsClampedIntersection ==
    RegionAnswered =>
      LET left == IF call.req.x < 0 THEN 0 ELSE call.req.x
          top == IF call.req.y < 0 THEN 0 ELSE call.req.y
          w == IntersectLen(left, call.req.width, call.monitor.width)
          h == IntersectLen(top, call.req.height, call.monitor.height)
      IN  IF w > 0 /\ h > 0
            THEN /\ call.res.ret = "ok"
                 /\ call.res.left = left
                 /\ call.res.top = top
                 /\ call.res.width = w
                 /\ call.res.height = h
            ELSE call.res.ret = "err_invalid_region"

\* C6 witness: a request that starts left of the monitor was answered with a
\* crop as wide as requested, wider than the rectangle's visible part.
C6_Witness ==
    /\ call.op = "capture_region"
    /\ call.res.ret = "ok"
    /\ call.req.x < 0
    /\ call.res.width = call.req.width
    /\ call.res.width > IntersectLen(call.req.x, call.req.width, call.monitor.width)

\* C7 as claimed (IoSpec): both commands reject a payload above the ceiling
\* before any decode or write, and accept one of exactly the ceiling: the
\* padded encoding of MAX_IMAGE_SIZE bytes passes the clipboard's size checks.
C7_CeilingIsInclusive ==
    /\ call.op = "copy_image_to_clipboard" /\ call.req.wf =>
         LET size == Base64Decode(call.req).len IN
         /\ size > MAX_IMAGE_SIZE =>
              (call.res.ret = "err_too_large" /\ call.res.effects = <<>>)
         /\ size = MAX_IMAGE_SIZE =>
              call.res.ret \notin {"err_too_large", "err_decoded_too_large"}
    /\ call.op = "save_file" =>
         /\ call.req.size > MAX_FILE_SIZE =>
              (call.res.ret = "err_too_large" /\ call.res.effects = <<>>)
         /\ call.req.size = MAX_FILE_SIZE => call.res.ret # "err_too_large"

\* C8 as claimed (IoSpec): the zero-area error of capture_region comes before
\* any enumeration or capture, and the traversal and size errors of save_file
\* come before any directory is created or file written.
C8_ValidationBeforeWork ==
    /\ call.op = "capture_region" /\ call.res.ret = "err_invalid_region" =>
         call.res.effects = <<>>
    /\ call.op = "save_file" /\ call.res.ret \in {"err_too_large", "err_traversal"} =>
         /\ call.res.effects = <<>>
         /\ fsDirs = call.before.dirs
         /\ fsFiles = call.before.files

\* C8 amended (IoSpec): save_file rejects an oversized payload before any
\* work.  capture_region answers a zero-extent request after the enumeration
\* and the capture and before any crop or encoding; save_file raises the
\* traversal error after the parent directory is created and canonicalized
\* and before any file is written.
C8_ValidationOrder ==
    /\ call.op = "capture_region" =>
         /\ call.res.ret = "err_invalid_region" =>
              call.res.effects = <<"enumerate", "capture">>
         /\ (call.req.width = 0 \/ call.req.height = 0) =>
              \A i \in 1..Len(call.res.effects) :
                 call.res.effects[i] \notin {"crop", "encode"}
    /\ call.op = "save_file" =>
         /\ call.req.size > MAX_FILE_SIZE =>
              /\ call.res.ret = "err_too_large"
              /\ call.res.effects = <<>>
              /\ fsDirs = call.before.dirs
              /\ fsFiles = call.before.files
         /\ call.res.ret = "err_traversal" =>
              /\ call.res.effects = <<"create_dir_all", "canonicalize">>
              /\ AncestorsOf(Front(call.req.path)) \subseteq fsDirs
              /\ fsFiles = call.before.files

\* C8 witness: save_file has returned the traversal error and a directory
\* exists that did not exist before the call.
C8_Witness ==
    /\ call.op = "save_file"
    /\ call.res.ret = "err_traversal"
    /\ fsDirs # call.before.dirs
    /\ fsFiles = call.before.files

====
